---- MODULE Spec2Model ----
(***************************************************************************)
(* Model of the ArgoCD diff action (14MR/argocd-diff-action).              *)
(*                                                                         *)
(* Two pipeline variants exist in the repository: the richer one           *)
(* (src/unnamed/part_000) and the legacy one (src/src/main.ts).  Unless a  *)
(* definition says otherwise it models the richer variant.                 *)
(*                                                                         *)
(* Text is modelled as a sequence of one-character strings, so that        *)
(* startsWith, includes, split and join are computed rather than assumed.  *)
(***************************************************************************)
EXTENDS Integers, Sequences, FiniteSets, TLC

(***************************************************************************)
(* Bounds of the model.                                                    *)
(***************************************************************************)
MaxAppSegs == 3
MaxFileSegs == 3
MaxMatcherLen == 4
MaxUrlLen == 4

(***************************************************************************)
(* Text helpers (JavaScript String methods).                               *)
(***************************************************************************)
Min(a, b) == IF a < b THEN a ELSE b

\* All sequences over S of length lo..hi.
SeqsOf(S, lo, hi) == UNION {[1..n -> S] : n \in lo..hi}

\* String.prototype.startsWith
StartsWith(s, p) == Len(p) <= Len(s) /\ SubSeq(s, 1, Len(p)) = p

\* String.prototype.endsWith
EndsWith(s, p) == Len(p) <= Len(s) /\ SubSeq(s, Len(s) - Len(p) + 1, Len(s)) = p

\* String.prototype.includes
Includes(s, p) == \E i \in 1..(Len(s) - Len(p) + 1) : SubSeq(s, i, i + Len(p) - 1) = p

\* String.prototype.split with a one-character separator: "" splits to [""].
RECURSIVE SplitAcc(_, _, _, _)
SplitAcc(s, sep, i, cur) ==
  IF i > Len(s) THEN <<cur>>
  ELSE IF s[i] = sep THEN <<cur>> \o SplitAcc(s, sep, i + 1, <<>>)
  ELSE SplitAcc(s, sep, i + 1, Append(cur, s[i]))

Split(s, sep) == SplitAcc(s, sep, 1, <<>>)

\* Array.prototype.join with a one-character separator.
RECURSIVE Join(_, _)
Join(parts, sep) ==
  IF Len(parts) = 0 THEN <<>>
  ELSE IF Len(parts) = 1 THEN parts[1]
  ELSE parts[1] \o <<sep>> \o Join(Tail(parts), sep)

\* Array.prototype.filter(Boolean) on an array of strings.
NonEmptyParts(parts) == SelectSeq(parts, LAMBDA p : p # <<>>)

(***************************************************************************)
(* path.normalize and path.sep of Node.js (POSIX), as used by partOfApp.   *)
(***************************************************************************)
sep == "/"

RECURSIVE NormSegs(_, _, _)
NormSegs(segs, acc, allowAboveRoot) ==
  IF Len(segs) = 0 THEN acc
  ELSE LET h == Head(segs)
           t == Tail(segs)
       IN IF h = <<>> \/ h = <<".">> THEN NormSegs(t, acc, allowAboveRoot)
          ELSE IF h = <<".", ".">>
            THEN IF Len(acc) > 0 /\ acc[Len(acc)] # <<".", ".">>
                   THEN NormSegs(t, SubSeq(acc, 1, Len(acc) - 1), allowAboveRoot)
                 ELSE IF allowAboveRoot THEN NormSegs(t, Append(acc, h), allowAboveRoot)
                 ELSE NormSegs(t, acc, allowAboveRoot)
          ELSE NormSegs(t, Append(acc, h), allowAboveRoot)

normalize(p) ==
  IF Len(p) = 0 THEN <<".">>
  ELSE LET isAbsolute == p[1] = sep
           trailing == p[Len(p)] = sep
           body == Join(NormSegs(Split(p, sep), <<>>, ~isAbsolute), sep)
       IN IF Len(body) = 0
            THEN IF isAbsolute THEN <<sep>>
                 ELSE IF trailing THEN <<".", sep>> ELSE <<".">>
          ELSE (IF isAbsolute THEN <<sep>> ELSE <<>>) \o body
               \o (IF trailing THEN <<sep>> ELSE <<>>)

(***************************************************************************)
(* Application Selector: getFirstTwoDirectories, partOfApp.                *)
(***************************************************************************)
\* Variant: the source path cut to its first segment only.
getFirstTwoDirectories_OneSegment(filePath) ==
  LET parts == NonEmptyParts(Split(normalize(filePath), sep))
  IN IF Len(parts) < 1 THEN <<>> ELSE parts[1]

getFirstTwoDirectories(filePath) ==
  LET normalizedPath == normalize(filePath)
      parts == NonEmptyParts(Split(normalizedPath, sep))
  IN IF Len(parts) < 2 THEN Join(parts, sep)
     ELSE Join(SubSeq(parts, 1, 2), sep)

partOfApp(changedFiles, app) ==
  LET sourcePath == normalize(app.path)
      appPath == getFirstTwoDirectories(sourcePath)
  IN \E i \in 1..Len(changedFiles) : StartsWith(normalize(changedFiles[i]), appPath)

(***************************************************************************)
(* JavaScript RegExp, restricted to the syntax the modelled matchers can   *)
(* contain: "." matches any character, every other character is literal.   *)
(* RegExp.prototype.test searches (it is not anchored).                    *)
(***************************************************************************)
RegExpMatchAt(re, s, start) ==
  /\ start + Len(re) - 1 <= Len(s)
  /\ \A k \in 1..Len(re) : re[k] = "." \/ re[k] = s[start + k - 1]

RegExpTest(re, s) == \E start \in 1..(Len(s) + 1) : RegExpMatchAt(re, s, start)

\* String.prototype.slice(1, -1)
Slice1Minus1(s) == SubSeq(s, 2, Len(s) - 1)

Range(f) == {f[i] : i \in DOMAIN f}

(***************************************************************************)
(* filterAppsByName (identical in both variants).                          *)
(***************************************************************************)
filterAppsByName(appsAffected, appNameMatcher) ==
  IF StartsWith(appNameMatcher, <<"/">>) /\ EndsWith(appNameMatcher, <<"/">>)
    THEN LET appNameFilter == Slice1Minus1(appNameMatcher)
         IN SelectSeq(appsAffected, LAMBDA app : RegExpTest(appNameFilter, app.name))
  ELSE IF appNameMatcher # <<>>
    THEN LET appNames == Range(Split(appNameMatcher, ","))
         IN SelectSeq(appsAffected, LAMBDA app : app.name \in appNames)
  ELSE appsAffected

(***************************************************************************)
(* getApps: the repository/branch filter and the whole selection.          *)
(***************************************************************************)
\* A targetRevision the inventory JSON leaves out.
Undefined == "<undefined>"

\* JavaScript falsiness of a string-or-undefined value.
Falsy(v) == v = "" \/ v = Undefined

\* Variant: the target revision is not looked at.
isRepoApp_AnyBranch(app, slug) == Includes(app.repoURL, slug)

isRepoApp(app, slug) ==
  LET targetRevision == app.targetRevision
      targetPrimary ==
        targetRevision = "master" \/ targetRevision = "main" \/ Falsy(targetRevision)
      isRepoMatch == Includes(app.repoURL, slug)
  IN isRepoMatch /\ targetPrimary

\* getApps after a successful inventory fetch and a successful changed-files fetch.
selectApps(items, slug, changedFiles, appNameMatcher) ==
  LET repoApps == SelectSeq(items, LAMBDA app : isRepoApp(app, slug))
      appsAffected == SelectSeq(repoApps, LAMBDA app : partOfApp(changedFiles, app))
  IN filterAppsByName(appsAffected, appNameMatcher)

(***************************************************************************)
(* Diff text: a sequence of lines.  Each line is one of a few tokens that  *)
(* stand for the line shapes filterDiff's regular expressions tell apart.  *)
(***************************************************************************)
LHeader == "===== apps/Deployment ns/app ======"
LMarker == "1c1"
LInstOld == "<   argocd.argoproj.io/instance: x"
LInstNew == ">   argocd.argoproj.io/instance: y"
LDashes == "---"
LPartOf == "<   app.kubernetes.io/part-of: x"
LOld == "<   replicas: 1"
LNew == ">   replicas: 2"
LBlank == ""

\* String.prototype.trim, on lines: leading and trailing blank lines go.
RECURSIVE TrimLeft(_)
TrimLeft(t) == IF Len(t) > 0 /\ Head(t) = LBlank THEN TrimLeft(Tail(t)) ELSE t

RECURSIVE TrimRight(_)
TrimRight(t) ==
  IF Len(t) > 0 /\ t[Len(t)] = LBlank THEN TrimRight(SubSeq(t, 1, Len(t) - 1)) ELSE t

Trim(t) == TrimRight(TrimLeft(t))

\* diffText.split(/(?=^===== )/m): a new section starts before every header line.
RECURSIVE SplitSections(_, _, _)
SplitSections(t, i, cur) ==
  IF i > Len(t) THEN <<cur>>
  ELSE IF t[i] = LHeader /\ i > 1
    THEN <<cur>> \o SplitSections(t, i + 1, <<t[i]>>)
  ELSE SplitSections(t, i + 1, Append(cur, t[i]))

\* The instance-label block at line i, without its optional change marker.
InstanceBlockAt(t, i) ==
  /\ i + 2 <= Len(t)
  /\ t[i] = LInstOld /\ t[i + 1] = LDashes /\ t[i + 2] = LInstNew

\* First replace(): one left-to-right pass, matches do not overlap.
RECURSIVE RemoveInstance(_, _)
RemoveInstance(t, i) ==
  IF i > Len(t) THEN <<>>
  ELSE IF t[i] = LMarker /\ InstanceBlockAt(t, i + 1) THEN RemoveInstance(t, i + 4)
  ELSE IF InstanceBlockAt(t, i) THEN RemoveInstance(t, i + 3)
  ELSE <<t[i]>> \o RemoveInstance(t, i + 1)

\* Second replace(): the "<" part-of line, with its optional change marker.
RECURSIVE RemovePartOf(_, _)
RemovePartOf(t, i) ==
  IF i > Len(t) THEN <<>>
  ELSE IF t[i] = LMarker /\ i + 1 <= Len(t) /\ t[i + 1] = LPartOf
    THEN RemovePartOf(t, i + 2)
  ELSE IF t[i] = LPartOf THEN RemovePartOf(t, i + 1)
  ELSE <<t[i]>> \o RemovePartOf(t, i + 1)

RECURSIVE Flatten(_)
Flatten(ss) == IF Len(ss) = 0 THEN <<>> ELSE Head(ss) \o Flatten(Tail(ss))

filterDiff(diffText) ==
  LET sections == SplitSections(diffText, 1, <<>>)
      clean(section) == Trim(RemovePartOf(Trim(RemoveInstance(section, 1)), 1))
      cleaned == [i \in 1..Len(sections) |-> clean(sections[i])]
      filteredSection == SelectSeq(cleaned, LAMBDA x : x # <<>>)
      removeEmptyHeaders == SelectSeq(filteredSection, LAMBDA entry : entry # <<LHeader>>)
  IN Trim(Flatten(removeEmptyHeaders))

(***************************************************************************)
(* scrubSecrets (identical in both variants).  The captured token is made  *)
(* a RegExp; of the RegExp syntax the model has what the modelled tokens   *)
(* can contain: "." matches any character, "+" repeats the atom before it  *)
(* (greedy, one or more), every other character is literal.                *)
(***************************************************************************)
AuthFlag == <<"-", "-", "a", "u", "t", "h", "-", "t", "o", "k", "e", "n", "=">>
Mask == <<"*", "*", "*">>

\* \S
NonSpace(c) == c # " " /\ c # "\n"

\* The end of the run of non-space characters that starts at i.
RECURSIVE RunEnd(_, _)
RunEnd(s, i) == IF i <= Len(s) /\ NonSpace(s[i]) THEN RunEnd(s, i + 1) ELSE i - 1

\* The positions where /--auth-token=([\w.\S]+)/ matches.
AuthTokenAt(s) ==
  { i \in 1..Len(s) :
      /\ i + Len(AuthFlag) <= Len(s)
      /\ s[i] = AuthFlag[1]
      /\ SubSeq(s, i, i + Len(AuthFlag) - 1) = AuthFlag
      /\ NonSpace(s[i + Len(AuthFlag)]) }

\* input.match(...): null, or the first match with its capture group.
authTokenMatches(input) ==
  LET at == AuthTokenAt(input)
  IN IF at = {} THEN <<>>
     ELSE LET i == CHOOSE j \in at : \A k \in at : j <= k
          IN << SubSeq(input, i, RunEnd(input, i + Len(AuthFlag))),
                SubSeq(input, i + Len(AuthFlag), RunEnd(input, i + Len(AuthFlag))) >>

\* new RegExp(source): the atoms of the pattern, or a SyntaxError ("nothing
\* to repeat") when a "+" stands where an atom must.
RECURSIVE RegExpAtoms(_, _)
RegExpAtoms(source, i) ==
  IF i > Len(source) THEN [ok |-> TRUE, atoms |-> <<>>]
  ELSE IF source[i] = "+" THEN [ok |-> FALSE, atoms |-> <<>>]
  ELSE LET plus == i + 1 <= Len(source) /\ source[i + 1] = "+"
           rest == RegExpAtoms(source, IF plus THEN i + 2 ELSE i + 1)
       IN [ok |-> rest.ok, atoms |-> <<[ch |-> source[i], plus |-> plus]>> \o rest.atoms]

AtomMatches(atom, c) == atom.ch = "." \/ atom.ch = c

\* How many characters from pos on the atom matches.
RECURSIVE AtomRun(_, _, _)
AtomRun(atom, s, pos) ==
  IF pos <= Len(s) /\ AtomMatches(atom, s[pos]) THEN 1 + AtomRun(atom, s, pos + 1) ELSE 0

\* The backtracking matcher: where the match of atoms k.. that starts at pos
\* ends (the position after it), or -1.  A repeated atom takes the most it can.
RECURSIVE MatchEnd(_, _, _, _), TryCounts(_, _, _, _, _)
MatchEnd(atoms, k, s, pos) ==
  IF k > Len(atoms) THEN pos
  ELSE IF atoms[k].plus THEN TryCounts(atoms, k, s, pos, AtomRun(atoms[k], s, pos))
  ELSE IF pos <= Len(s) /\ AtomMatches(atoms[k], s[pos]) THEN MatchEnd(atoms, k + 1, s, pos + 1)
  ELSE -1

TryCounts(atoms, k, s, pos, count) ==
  IF count < 1 THEN -1
  ELSE LET end == MatchEnd(atoms, k + 1, s, pos + count)
       IN IF end # -1 THEN end ELSE TryCounts(atoms, k, s, pos, count - 1)

\* String.prototype.replace(new RegExp(source, 'g'), '***')
\* Every match is replaced, leftmost first; the search goes on after a match.
RECURSIVE ReplaceFrom(_, _, _, _)
ReplaceFrom(atoms, s, pos, matches) ==
  LET starts == {i \in matches : i >= pos}
  IN IF starts = {} THEN SubSeq(s, pos, Len(s))
     ELSE LET first == CHOOSE i \in starts : \A j \in starts : i <= j
          IN SubSeq(s, pos, first - 1) \o Mask
               \o ReplaceFrom(atoms, s, MatchEnd(atoms, 1, s, first), matches)

ReplaceAll(atoms, s) ==
  ReplaceFrom(atoms, s, 1, {i \in 1..Len(s) : MatchEnd(atoms, 1, s, i) > i})

\* The result: the text returned, or threw when new RegExp() throws.
scrubSecrets(input) ==
  LET m == authTokenMatches(input)
  IN IF m = <<>> THEN [threw |-> FALSE, text |-> input]
     ELSE LET re == RegExpAtoms(m[2], 1)
          IN IF re.ok THEN [threw |-> FALSE, text |-> ReplaceAll(re.atoms, input)]
             ELSE [threw |-> TRUE, text |-> <<>>]

(***************************************************************************)
(* The inputs of a run: inventory, change set, matcher, tool outcomes.     *)
(***************************************************************************)
MaxRuns == 2

\* github.context.repo: owner "o", repository "r".
RepoSlug == <<"o", "/", "r">>
UrlHere == <<"g", "/", "o", "/", "r">>
UrlElsewhere == <<"g", "/", "o", "/", "q">>

App(name, url, path, rev, sync) ==
  [name |-> name, repoURL |-> url, path |-> path, targetRevision |-> rev, sync |-> sync]

AppA == App(<<"a">>, UrlHere, <<"a", "/", "a">>, "main", "Synced")
AppB == App(<<"B">>, UrlHere, <<"a", "/", "b", "/", "a">>, "", "OutOfSync")
AppC == App(<<"a", "b">>, UrlHere, <<"b">>, "master", "Synced")
AppD == App(<<"b">>, UrlElsewhere, <<"a", "/", "a">>, "main", "Synced")
AppE == App(<<"b", "a">>, UrlHere, <<"a", "/", "b">>, "dev", "OutOfSync")

Inventories ==
  { <<>>, <<AppA>>, <<AppA, AppB, AppC>>, <<AppC, AppD, AppB, AppE, AppA>> }

ChangeSets ==
  { <<>>,
    <<<<"a", "/", "b", "/", "f">>>>,
    <<<<"a", "/", "a", "/", "f">>, <<"b", "/", "f">>, <<"a", "/", "b", "/", "f">>>> }

Matchers == { <<>>, <<"/", "a", "/">>, <<"B", ",", "a">> }

\* core.getInput('fail-on-errors'), and String.prototype.toLowerCase on it.
FailOnErrorsInputs == {"", "true", "false", "False"}
ToLowerCase(v) == IF v = "False" THEN "false" ELSE v
FAIL_ON_ERRORS(input) == ToLowerCase(input) # "false"

\* What the inventory request can come to, and the changed-files request.
FetchOutcomes == {"ok", "network", "http", "badjson"}
FilesOutcomes == {"ok", "error"}

\* What one run of the diff tool can come to: child_process.exec's callback
\* arguments.  err is set exactly when the process did not exit with status 0.
NoErr == [code |-> 0]
DiffFound == <<LHeader, LMarker, LOld, LDashes, LNew>>
DiffNoise == <<LHeader, LMarker, LInstOld, LDashes, LInstNew>>
Failure == [code |-> 1]
Exec(o, e, x) == [stdout |-> o, stderr |-> e, err |-> x]
ToolOutcomes ==
  { Exec(<<>>, "", NoErr), Exec(DiffFound, "", NoErr),
    Exec(DiffFound, "", Failure), Exec(DiffNoise, "", Failure),
    Exec(<<>>, "connection refused", Failure), Exec(<<>>, "", Failure) }

\* Diff.error when there is none.
NoError == [none |-> TRUE]

\* core.getInput('argocd-token'): the deployment-server credential.
ARGOCD_TOKEN == <<"s", "k">>

\* The parameters of the diff command: app diff <name> --local=<path>
command(app) == <<"app diff ">> \o app.name \o <<" ", "--local=">> \o app.path

\* The command line argocd(params) runs: binary, params, credential, server.
argocd(params) ==
  <<"argocd", " ">> \o params \o <<" ">> \o AuthFlag \o ARGOCD_TOKEN \o <<" ", "--server=h", " ">>

\* execCommand: the ExecResult of a process outcome.  The ExecException that
\* child_process.exec passes carries the command line (err.cmd).
execCommand(cmd, o) ==
  IF o.err = NoErr THEN o ELSE [o EXCEPT !.err = [code |-> o.err.code, cmd |-> cmd]]

\* JSON.stringify(err): the enumerable fields of the ExecException.
JSONstringify(err) == <<"{", ToString(err.code), ",">> \o err.cmd \o <<"}">>

\* err.message: "Command failed: " + cmd + "\n" + stderr
errMessage(res) == <<"Command failed: ">> \o res.err.cmd \o <<"\n", res.stderr>>

\* Array.prototype.join('\n') on lines or texts.
RECURSIVE JoinLines(_)
JoinLines(ts) ==
  IF Len(ts) = 0 THEN <<>>
  ELSE IF Len(ts) = 1 THEN Head(ts)
  ELSE Head(ts) \o <<"\n">> \o JoinLines(Tail(ts))

\* A diff text as characters: its lines, a line break between them.
TextOf(lines) == JoinLines([i \in 1..Len(lines) |-> <<lines[i]>>])

\* What the callback writes to the log before the command runs.
startLog(app) ==
  { <<"Processing app: ">> \o app.name,
    <<"Running: argocd ">> \o command(app),
    <<"Local path: ">> \o app.path }

\* What the callback writes to the log when the command has ended.
completionLog(app, res) ==
  IF res.err = NoErr THEN { <<"Success for ">> \o app.name }
  ELSE { <<"Command failed for app: ">> \o app.name,
         <<"stdout: ">> \o TextOf(res.stdout),
         <<"stderr: ", res.stderr>>,
         <<"Error details: ">> \o JSONstringify(res.err),
         <<"Error message: ">> \o errMessage(res),
         <<"Error code: ", ToString(res.err.code)>>,
         IF res.stdout # <<>> THEN <<"Found diff for ">> \o app.name
         ELSE <<"No diff, recording error for ">> \o app.name }

(***************************************************************************)
(* The pull request's comments.  "#" stands for "## ArgoCD Diff on ".      *)
(***************************************************************************)
ENV == <<"p">>
prefixHeader(env) == <<"#">> \o env

StaleBodies ==
  << prefixHeader(ENV) \o <<" ", "1">>,
     <<"l", "g", "t", "m">>,
     prefixHeader(ENV) \o <<" ", "2">> >>

\* The comment lists a pull request can start with: any sub-list of StaleBodies.
RECURSIVE SubLists(_)
SubLists(q) ==
  IF Len(q) = 0 THEN {<<>>}
  ELSE LET rest == SubLists(Tail(q))
       IN rest \cup {<<Head(q)>> \o r : r \in rest}

\* Other workflows run the action for other environments on the same pull
\* request: one whose name starts with ENV, one whose name does not.
OtherEnvs == { <<"p", "r">>, <<"q">> }

\* The body of a report for environment env (its header line).
reportOf(env) == prefixHeader(env) \o <<" ", "c">>

\* Comment lists with reports of other environments in them.
OtherEnvLists ==
  { << reportOf(<<"p", "r">>) >>,
    << reportOf(<<"q">>) >>,
    << StaleBodies[1], reportOf(<<"p", "r">>), reportOf(<<"q">>) >> }

InitialComments ==
  { [i \in 1..Len(q) |-> [id |-> i, body |-> q[i], run |-> 0]] :
      q \in SubLists(StaleBodies) \cup OtherEnvLists }

(***************************************************************************)
(* State.                                                                  *)
(***************************************************************************)
VARIABLES
  pc,          \* where run() stands
  runNo,       \* which run on this pull request (runs are serialized)
  failInput,   \* the fail-on-errors input of this run
  upstream,    \* how getApps' requests went: "ok" or the failure
  apps,        \* const apps = await getApps()
  index,       \* asyncForEach's index (0-based)
  diffs,       \* const diffs: Diff[]
  lastExec,    \* the ExecResult of the latest tool run
  inFlight,    \* the applications whose diff command is running
  started,     \* how many diff commands were started in this run
  delays,      \* how many times sleep(DELAY_BETWEEN_APPS) was entered
  failed,      \* core.setFailed was called (process.exitCode = 1)
  message,     \* the message of the outcome decision's setFailed
  warned,      \* the outcome decision's core.warning was called
  kept,        \* postDiffComment's filteredDiffs
  listed,      \* the comments listComments returned to this run
  comments,    \* the pull request's comments
  pending,     \* the requests issued and not yet completed
  nextId,      \* the id the platform gives the next comment
  log,         \* the lines this run wrote with core.info / core.warning (a set)
  published,   \* the text this run gave to createComment, if it did
  sel,         \* input and result of a function applied on its own (SelSpec, TextSpec)
  racers,      \* where each of two concurrent postDiffComment calls stands (RaceSpec)
  legacy       \* the legacy variant (src/main.ts) run on the same inputs

vars ==
  << pc, runNo, failInput, upstream, apps, index, diffs, lastExec, inFlight, started,
     delays, failed, message, warned, kept, listed, comments, pending, nextId, sel, racers,
     log, published, legacy >>

runVars ==
  << pc, runNo, failInput, upstream, apps, index, diffs, lastExec, inFlight, started,
     delays, failed, message, warned, kept, listed, comments, pending, nextId,
     log, published, racers, legacy >>

NoExec == [none |-> TRUE]
NoMessage == [kind |-> "none"]
NoSel == [kind |-> "none"]
NoRacers == [none |-> TRUE]
LegacyStart == [diffs |-> <<>>, kept |-> <<>>, failed |-> FALSE]
NothingPublished == [none |-> TRUE]

\* The state a run starts in.
RunStart(n, input) ==
  /\ pc = "getApps"
  /\ runNo = n
  /\ failInput = input
  /\ upstream = "ok"
  /\ apps = <<>>
  /\ index = 0
  /\ diffs = <<>>
  /\ lastExec = NoExec
  /\ inFlight = {}
  /\ started = 0
  /\ delays = 0
  /\ failed = FALSE
  /\ message = NoMessage
  /\ warned = FALSE
  /\ kept = <<>>
  /\ listed = <<>>
  /\ pending = {}
  /\ log = {}
  /\ published = NothingPublished
  /\ legacy = LegacyStart

Init ==
  /\ \E input \in FailOnErrorsInputs : RunStart(1, input)
  /\ comments \in InitialComments
  /\ nextId = Len(comments) + 1
  /\ sel = NoSel
  /\ racers = NoRacers

(***************************************************************************)
(* The legacy variant (src/main.ts), run beside the richer one on the same *)
(* applications and tool results.  getApps, execCommand, filterDiff and    *)
(* scrubSecrets are the same text in both files.                           *)
(***************************************************************************)
\* The Diff the legacy callback pushes for one tool run.
legacyDiffOf(app, res) ==
  IF res.err = NoErr THEN [app |-> app, diff |-> <<>>, error |-> NoError]
  ELSE IF res.stdout # <<>> THEN [app |-> app, diff |-> res.stdout, error |-> NoError]
  ELSE [app |-> app, diff |-> <<>>, error |-> res]

\* diffs.map(diff => { diff.diff = filterDiff(diff.diff); return diff; })
legacyNormalizedDiffs(ds) ==
  [i \in 1..Len(ds) |-> [ds[i] EXCEPT !.diff = filterDiff(ds[i].diff)]]

\* .filter(d => d.diff !== ''): no failure records kept, no sort.
legacyFilteredDiffs(ds) ==
  SelectSeq(legacyNormalizedDiffs(ds), LAMBDA d : d.diff # <<>>)

\* One element of the legacy diffOutput.
legacyAppSection(d) ==
  <<"\n", "App: ">> \o d.app.name \o <<"\n">>
    \o <<"YAML generation: ", IF d.error # NoError THEN "Error" ELSE "Success", "\n">>
    \o <<"App sync status: ", IF d.app.sync = "Synced" THEN "Synced" ELSE "Out of Sync", "\n">>
    \o (IF d.error # NoError
          THEN <<"stderr:", "\n", d.error.stderr, "\n", "command:", "\n">>
               \o JSONstringify(d.error.err) \o <<"\n">>
        ELSE <<>>)
    \o (IF d.diff # <<>> THEN <<"diff:", "\n">> \o TextOf(d.diff) \o <<"\n", "end", "\n">>
        ELSE <<>>)
    \o <<"---", "\n">>

\* if (diffsWithErrors.length) core.setFailed(...): there is no fail-on-errors input.
legacyOutcome(ds) ==
  Len(SelectSeq(ds, LAMBDA d : d.error # NoError)) > 0

(***************************************************************************)
(* getApps: the two requests, then the selection.                          *)
(***************************************************************************)
\* Variant: an unparsable inventory body returns [] without core.setFailed.
getApps_NoSetFailed(fetch, files, items, changedFiles, appNameMatcher) ==
  IF fetch = "badjson" THEN [apps |-> <<>>, setFailed |-> FALSE, upstream |-> fetch]
  ELSE IF fetch # "ok" THEN [apps |-> <<>>, setFailed |-> TRUE, upstream |-> fetch]
  ELSE IF files # "ok" THEN [apps |-> <<>>, setFailed |-> TRUE, upstream |-> "files"]
  ELSE [apps |-> selectApps(items, RepoSlug, changedFiles, appNameMatcher),
        setFailed |-> FALSE, upstream |-> "ok"]

getApps(fetch, files, items, changedFiles, appNameMatcher) ==
  IF fetch # "ok" THEN [apps |-> <<>>, setFailed |-> TRUE, upstream |-> fetch]
  ELSE IF files # "ok" THEN [apps |-> <<>>, setFailed |-> TRUE, upstream |-> "files"]
  ELSE [apps |-> selectApps(items, RepoSlug, changedFiles, appNameMatcher),
        setFailed |-> FALSE, upstream |-> "ok"]

GetApps ==
  /\ pc = "getApps"
  /\ \E fetch \in FetchOutcomes, files \in FilesOutcomes, items \in Inventories,
        changedFiles \in ChangeSets, matcher \in Matchers :
       LET r == getApps(fetch, files, items, changedFiles, matcher)
       IN /\ apps' = r.apps
          /\ failed' = (failed \/ r.setFailed)
          /\ upstream' = r.upstream
          /\ legacy' = [legacy EXCEPT !.failed = @ \/ r.setFailed]
  /\ pc' = "loop"
  /\ UNCHANGED << runNo, failInput, index, diffs, lastExec, inFlight, started, delays,
                  message, warned, kept, listed, comments, pending, nextId, sel, racers,
                  log, published >>

(***************************************************************************)
(* The per-application diff loop of run(): asyncForEach and its callback.  *)
(***************************************************************************)
\* Variant: a failed run with stdout text keeps its failure record too.
diffOf_ErrorWithDiff(app, res) ==
  IF res.err = NoErr THEN [app |-> app, diff |-> <<>>, error |-> NoError]
  ELSE [app |-> app, diff |-> res.stdout, error |-> res]

\* The Diff pushed for one tool run: execCommand rejects exactly when err is set.
diffOf(app, res) ==
  IF res.err = NoErr THEN [app |-> app, diff |-> <<>>, error |-> NoError]
  ELSE IF res.stdout # <<>> THEN [app |-> app, diff |-> res.stdout, error |-> NoError]
  ELSE [app |-> app, diff |-> <<>>, error |-> res]

\* Variant: the callback sleeps after the last application too.
sleepsAfter_AfterEvery(i, n) == i < n

\* The callback sleeps after every application but the last.
sleepsAfter(i, n) == i < n - 1

\* await argocd(command): the command starts.
StartDiff ==
  /\ pc = "loop"
  /\ index < Len(apps)
  /\ inFlight' = inFlight \cup {index + 1}
  /\ started' = started + 1
  /\ log' = log \cup startLog(apps[index + 1])
  /\ pc' = "exec"
  /\ UNCHANGED << runNo, failInput, upstream, apps, index, diffs, lastExec, delays, failed,
                  message, warned, kept, listed, comments, pending, nextId, sel, racers,
                  published, legacy >>

\* Variant: a failed tool run is not caught; it ends run() through
\* run().catch(e => core.setFailed(e.message)).
CompleteDiff_AbortOnFailure ==
  /\ pc = "exec"
  /\ inFlight' = inFlight \ {index + 1}
  /\ \E o \in ToolOutcomes :
      LET res == execCommand(argocd(command(apps[index + 1])), o)
      IN
       /\ lastExec' = res
       /\ log' = log \cup completionLog(apps[index + 1], res)
       /\ legacy' = [legacy EXCEPT !.diffs = Append(@, legacyDiffOf(apps[index + 1], res))]
       /\ IF res.err # NoErr /\ res.stdout = <<>>
            THEN /\ pc' = "done"
                 /\ failed' = TRUE
                 /\ UNCHANGED << diffs, delays, index >>
            ELSE /\ diffs' = Append(diffs, diffOf(apps[index + 1], res))
                 /\ failed' = failed
                 /\ IF index < Len(apps) - 1
                      THEN pc' = "sleep" /\ delays' = delays + 1 /\ index' = index
                      ELSE pc' = "loop" /\ delays' = delays /\ index' = index + 1
  /\ UNCHANGED << runNo, failInput, upstream, apps, started, message, warned,
                  kept, listed, comments, pending, nextId, sel, racers, published >>

\* The command ends; its result is classified and pushed.
CompleteDiff ==
  /\ pc = "exec"
  /\ \E o \in ToolOutcomes :
       LET res == execCommand(argocd(command(apps[index + 1])), o)
       IN /\ lastExec' = res
          /\ diffs' = Append(diffs, diffOf(apps[index + 1], res))
          /\ log' = log \cup completionLog(apps[index + 1], res)
          /\ legacy' = [legacy EXCEPT !.diffs = Append(@, legacyDiffOf(apps[index + 1], res))]
  /\ inFlight' = inFlight \ {index + 1}
  /\ IF sleepsAfter(index, Len(apps))
       THEN /\ pc' = "sleep"
            /\ delays' = delays + 1
            /\ index' = index
       ELSE /\ pc' = "loop"
            /\ delays' = delays
            /\ index' = index + 1
  /\ UNCHANGED << runNo, failInput, upstream, apps, started, failed, message, warned,
                  kept, listed, comments, pending, nextId, sel, racers, published >>

\* The delay elapses; asyncForEach moves on.
EndSleep ==
  /\ pc = "sleep"
  /\ index' = index + 1
  /\ pc' = "loop"
  /\ UNCHANGED << runNo, failInput, upstream, apps, diffs, lastExec, inFlight, started,
                  delays, failed, message, warned, kept, listed, comments, pending,
                  nextId, sel, racers,
                  log, published, legacy >>

(***************************************************************************)
(* Report Publisher: postDiffComment.                                      *)
(***************************************************************************)
\* String.prototype.localeCompare on names over a, b, A, B: letters compare
\* first without case; among equal letters lower case comes first.
LetterRank(c) == IF c \in {"a", "A"} THEN 1 ELSE IF c \in {"b", "B"} THEN 2 ELSE 3
CaseRank(c) == IF c \in {"A", "B"} THEN 1 ELSE 0
CharRank(level, c) == IF level = "letter" THEN LetterRank(c) ELSE CaseRank(c)

RECURSIVE CompareBy(_, _, _, _)
CompareBy(level, x, y, i) ==
  IF i > Len(x) /\ i > Len(y) THEN 0
  ELSE IF i > Len(x) THEN -1
  ELSE IF i > Len(y) THEN 1
  ELSE IF CharRank(level, x[i]) < CharRank(level, y[i]) THEN -1
  ELSE IF CharRank(level, x[i]) > CharRank(level, y[i]) THEN 1
  ELSE CompareBy(level, x, y, i + 1)

localeCompare(x, y) ==
  LET primary == CompareBy("letter", x, y, 1)
  IN IF primary # 0 THEN primary ELSE CompareBy("case", x, y, 1)

\* Variant: the comparator looks at the names only.
compareDiffs_NameOnly(a, b) == localeCompare(a.app.name, b.app.name)

\* The comparator given to sort().
compareDiffs(a, b) ==
  IF a.error # NoError /\ b.error = NoError THEN 1
  ELSE IF b.error # NoError /\ a.error = NoError THEN -1
  ELSE localeCompare(a.app.name, b.app.name)

\* Array.prototype.sort (stable).
RECURSIVE InsertSorted(_, _)
InsertSorted(q, d) ==
  IF Len(q) = 0 THEN <<d>>
  ELSE IF compareDiffs(q[Len(q)], d) <= 0 THEN Append(q, d)
  ELSE Append(InsertSorted(SubSeq(q, 1, Len(q) - 1), d), q[Len(q)])

RECURSIVE SortDiffs(_)
SortDiffs(q) ==
  IF Len(q) = 0 THEN <<>>
  ELSE InsertSorted(SortDiffs(SubSeq(q, 1, Len(q) - 1)), q[Len(q)])

\* diffs after .map(): every diff text normalized in place.
normalizedDiffs(ds) == [i \in 1..Len(ds) |-> [ds[i] EXCEPT !.diff = filterDiff(ds[i].diff)]]

\* Variant: only results with diff text are kept.
filteredDiffs_DiffOnly(ds) ==
  SortDiffs(SelectSeq(normalizedDiffs(ds), LAMBDA d : d.diff # <<>>))

filteredDiffs(ds) ==
  SortDiffs(SelectSeq(normalizedDiffs(ds), LAMBDA d : d.diff # <<>> \/ d.error # NoError))

\* One element of diffOutput: the section of one kept result.
appSection(d) ==
  <<"\n", "App: ">> \o d.app.name \o <<"\n">>
    \o <<"YAML generation: ", IF d.error # NoError THEN "Error" ELSE "Success", "\n">>
    \o <<"App sync status: ", IF d.app.sync = "Synced" THEN "Synced" ELSE "Out of Sync", "\n">>
    \o (IF d.error # NoError
          THEN <<"stderr:", "\n", d.error.stderr, "\n", "command:", "\n">>
               \o JSONstringify(d.error.err) \o <<"\n">>
        ELSE <<>>)
    \o (IF d.diff # <<>> THEN <<"diff:", "\n">> \o TextOf(d.diff) \o <<"\n", "end", "\n">>
        ELSE <<>>)
    \o <<"---", "\n">>

\* The summary block: counts, and the names of the failed applications.
summary(keptDiffs) ==
  LET appsWithDiffs == SelectSeq(keptDiffs, LAMBDA d : d.diff # <<>> /\ Trim(d.diff) # <<>>)
      appsWithErrors == SelectSeq(keptDiffs, LAMBDA d : d.error # NoError)
      appsSuccessful == SelectSeq(keptDiffs, LAMBDA d : d.error = NoError)
      names == [i \in 1..Len(appsWithErrors) |-> appsWithErrors[i].app.name]
  IN <<"\n", "Summary: ", ToString(Len(keptDiffs)), "\n",
       "successful: ", ToString(Len(appsSuccessful)), ToString(Len(appsWithDiffs)), "\n",
       "failed: ", ToString(Len(appsWithErrors))>>
     \o (IF Len(appsWithErrors) > 0 THEN <<" ", "(">> \o Join(names, ",") \o <<")">> ELSE <<>>)
     \o <<"\n">>

\* The text given to scrubSecrets: header line (" c" stands for " for commit
\* ..."), summary, the sections, the legend.
document(keptDiffs, env) ==
  <<"\n">> \o prefixHeader(env) \o <<" ", "c", "\n">>
    \o summary(keptDiffs) \o <<"\n">>
    \o JoinLines([i \in 1..Len(keptDiffs) |-> appSection(keptDiffs[i])])
    \o <<"\n", "\n", "Legend", "\n">>

\* const output = scrubSecrets(...)
output(keptDiffs, env) == scrubSecrets(document(keptDiffs, env))

\* The line of a text that starts at position i.
LineFrom(t, i) ==
  LET breaks == {j \in i..Len(t) : t[j] = "\n"}
  IN IF breaks = {} THEN SubSeq(t, i, Len(t))
     ELSE SubSeq(t, i, (CHOOSE j \in breaks : \A k \in breaks : j <= k) - 1)

\* Of a comment's body the platform state keeps the first line, which is all
\* that a later run reads of it (body.includes(prefixHeader)); the whole text
\* of this run's comment is in published.
bodyOf(text) == LineFrom(text, 2)

\* Variant: only the first listed comment that has the header is deleted.
staleDeletes_FirstOnly(list, env) ==
  LET hits == {j \in 1..Len(list) : Includes(list[j].body, prefixHeader(env))}
  IN { [op |-> "delete", id |-> list[i].id] : i \in {j \in hits : \A k \in hits : j <= k} }

\* The deleteComment requests: one for each listed comment that has the header.
staleDeletes(list, env) ==
  { [op |-> "delete", id |-> list[i].id] :
      i \in {j \in 1..Len(list) : Includes(list[j].body, prefixHeader(env))} }

\* Variant: a comment is created even when nothing was kept.
newComment_Always(keptDiffs, text, n) ==
  {[op |-> "create", body |-> bodyOf(text), run |-> n]}

\* The createComment request, if any.
newComment(keptDiffs, text, n) ==
  IF Len(keptDiffs) > 0 THEN {[op |-> "create", body |-> bodyOf(text), run |-> n]} ELSE {}

\* What postDiffComment writes to the log.
publisherLog(list, keptDiffs, env) ==
  { <<"deleting comment ", ToString(list[i].id)>> :
      i \in {j \in 1..Len(list) : Includes(list[j].body, prefixHeader(env))} }
  \cup { IF Len(keptDiffs) > 0 THEN <<"Posting comment with ", ToString(Len(keptDiffs))>>
         ELSE <<"No diffs or errors to report - skipping comment">> }

\* listComments is awaited; deleteComment and createComment are not.  The one
\* listComments request is taken to return every comment of the pull request
\* (the platform returns one page; the pull requests modelled fit in a page).
PostDiffComment ==
  /\ pc = "loop"
  /\ index >= Len(apps)
  /\ LET keptDiffs == filteredDiffs(diffs)
         text == output(keptDiffs, ENV).text
     IN /\ diffs' = normalizedDiffs(diffs)
        /\ kept' = keptDiffs
        /\ listed' = comments
        /\ pending' = pending \cup staleDeletes(comments, ENV)
                              \cup newComment(keptDiffs, text, runNo)
        /\ published' = IF Len(keptDiffs) > 0 THEN [text |-> text] ELSE NothingPublished
        /\ log' = log \cup publisherLog(comments, keptDiffs, ENV)
        /\ legacy' = [legacy EXCEPT !.diffs = legacyNormalizedDiffs(legacy.diffs),
                                    !.kept = legacyFilteredDiffs(legacy.diffs)]
  /\ pc' = "decide"
  /\ UNCHANGED << runNo, failInput, upstream, apps, index, lastExec, inFlight, started,
                  delays, failed, message, warned, comments, nextId, sel, racers >>

(***************************************************************************)
(* The outcome decision at the end of run().                               *)
(***************************************************************************)
diffsWithErrors(ds) == SelectSeq(ds, LAMBDA d : d.error # NoError)

\* Variant: the run is failed only when every application failed.
outcome_OnlyWhenAllFail(ds, failOnErrors) ==
  LET nErr == Len(diffsWithErrors(ds))
  IN IF nErr > 0
       THEN IF failOnErrors /\ nErr = Len(ds)
              THEN [warning |-> TRUE, setFailed |-> TRUE,
                    message |-> [kind |-> "all", errors |-> nErr, total |-> Len(ds)]]
            ELSE [warning |-> TRUE, setFailed |-> FALSE, message |-> NoMessage]
     ELSE [warning |-> FALSE, setFailed |-> FALSE, message |-> NoMessage]

outcome(ds, failOnErrors) ==
  LET nErr == Len(diffsWithErrors(ds))
  IN IF nErr > 0
       THEN IF failOnErrors /\ nErr = Len(ds)
              THEN [warning |-> TRUE, setFailed |-> TRUE,
                    message |-> [kind |-> "all", errors |-> nErr, total |-> Len(ds)]]
            ELSE IF failOnErrors
              THEN [warning |-> TRUE, setFailed |-> TRUE,
                    message |-> [kind |-> "some", errors |-> nErr, total |-> Len(ds)]]
            ELSE [warning |-> TRUE, setFailed |-> FALSE, message |-> NoMessage]
     ELSE [warning |-> FALSE, setFailed |-> FALSE, message |-> NoMessage]

\* The core.warning lines that name the failed applications.
failedAppLog(ds) ==
  { <<"Failed app: ">> \o d.app.name
      \o <<" - ", IF d.error.stderr # "" THEN d.error.stderr ELSE "Unknown error">> :
      d \in Range(diffsWithErrors(ds)) }

Decide ==
  /\ pc = "decide"
  /\ LET o == outcome(diffs, FAIL_ON_ERRORS(failInput))
     IN /\ failed' = (failed \/ o.setFailed)
        /\ message' = o.message
        /\ warned' = o.warning
  /\ log' = log \cup failedAppLog(diffs)
  /\ legacy' = [legacy EXCEPT !.failed = @ \/ legacyOutcome(legacy.diffs)]
  /\ pc' = "done"
  /\ UNCHANGED << runNo, failInput, upstream, apps, index, diffs, lastExec, inFlight,
                  started, delays, kept, listed, comments, pending, nextId, sel, racers,
                  published >>

(***************************************************************************)
(* The platform completes the requests the run left in flight.             *)
(***************************************************************************)
CompleteDelete ==
  /\ pc = "done"
  /\ \E r \in pending :
       /\ r.op = "delete"
       /\ comments' = SelectSeq(comments, LAMBDA c : c.id # r.id)
       /\ pending' = pending \ {r}
  /\ UNCHANGED << pc, runNo, failInput, upstream, apps, index, diffs, lastExec, inFlight,
                  started, delays, failed, message, warned, kept, listed, nextId, sel, racers,
                  log, published, legacy >>

CompleteCreate ==
  /\ pc = "done"
  /\ \E r \in pending :
       /\ r.op = "create"
       /\ comments' = Append(comments, [id |-> nextId, body |-> r.body, run |-> r.run])
       /\ pending' = pending \ {r}
  /\ nextId' = nextId + 1
  /\ UNCHANGED << pc, runNo, failInput, upstream, apps, index, diffs, lastExec, inFlight,
                  started, delays, failed, message, warned, kept, listed, sel, racers,
                  log, published, legacy >>

\* The calling CI system starts the next run once this one is over.
NextRun ==
  /\ pc = "done"
  /\ pending = {}
  /\ runNo < MaxRuns
  /\ pc' = "getApps"
  /\ runNo' = runNo + 1
  /\ failInput' \in FailOnErrorsInputs
  /\ upstream' = "ok"
  /\ apps' = <<>>
  /\ index' = 0
  /\ diffs' = <<>>
  /\ lastExec' = NoExec
  /\ inFlight' = {}
  /\ started' = 0
  /\ delays' = 0
  /\ failed' = FALSE
  /\ message' = NoMessage
  /\ warned' = FALSE
  /\ kept' = <<>>
  /\ listed' = <<>>
  /\ log' = {}
  /\ published' = NothingPublished
  /\ legacy' = LegacyStart
  /\ UNCHANGED << comments, pending, nextId, sel, racers >>

Next ==
  \/ GetApps
  \/ StartDiff
  \/ CompleteDiff
  \/ EndSleep
  \/ PostDiffComment
  \/ Decide
  \/ CompleteDelete
  \/ CompleteCreate
  \/ NextRun

Spec == Init /\ [][Next]_vars

(***************************************************************************)
(* Properties of the Diff Runner.                                          *)
(***************************************************************************)
\* A tool run has just been classified and its Diff pushed, not yet normalized.
JustPushed == pc \in {"loop", "sleep"} /\ lastExec # NoExec /\ Len(diffs) > 0

LastDiff == diffs[Len(diffs)]

\* C1: the Diff pushed for a tool run is decided by stdout presence, not by exit
\* status: any stdout text becomes the diff text, with no failure record; empty
\* stdout with an abnormal exit gives empty diff text and a failure record that
\* is that run's result (stderr, error object); empty stdout with exit status 0
\* gives empty diff text and no failure record.
C1_ClassifiedByStdout ==
  JustPushed =>
    /\ lastExec.stdout # <<>> =>
         LastDiff.diff = lastExec.stdout /\ LastDiff.error = NoError
    /\ (lastExec.stdout = <<>> /\ lastExec.err # NoErr) =>
         LastDiff.diff = <<>> /\ LastDiff.error = lastExec
    /\ (lastExec.stdout = <<>> /\ lastExec.err = NoErr) =>
         LastDiff.diff = <<>> /\ LastDiff.error = NoError

\* C1 holds of every tool run but one that exits with status 0 and stdout text.
C1_ExceptZeroExitWithStdout ==
  (JustPushed /\ ~(lastExec.err = NoErr /\ lastExec.stdout # <<>>)) =>
    /\ lastExec.stdout # <<>> =>
         LastDiff.diff = lastExec.stdout /\ LastDiff.error = NoError
    /\ (lastExec.stdout = <<>> /\ lastExec.err # NoErr) =>
         LastDiff.diff = <<>> /\ LastDiff.error = lastExec
    /\ (lastExec.stdout = <<>> /\ lastExec.err = NoErr) =>
         LastDiff.diff = <<>> /\ LastDiff.error = NoError

\* The loop over the selected applications is over.
LoopOver == (pc = "loop" /\ index >= Len(apps)) \/ pc \in {"decide", "done"}

HasError(d) == d.error # NoError

\* C2: a tool failure never aborts the run.  While the loop runs, diffs holds
\* one entry for each application handled so far, in the selected order; when
\* the loop is over it holds exactly one entry per selected application, the
\* i-th for the i-th application; the run ends only through the report
\* publisher and the outcome decision (whose warning tells a failure record).
C2_FailureNeverAborts ==
  /\ Len(diffs) <= Len(apps)
  /\ \A i \in 1..Len(diffs) : diffs[i].app = apps[i]
  /\ pc \in {"loop", "exec"} => Len(diffs) = index
  /\ pc = "sleep" => Len(diffs) = index + 1
  /\ LoopOver => Len(diffs) = Len(apps)
  /\ pc = "decide" => listed = comments
  /\ pc = "done" => warned = (\E i \in 1..Len(diffs) : HasError(diffs[i]))

\* C2 witness: a run of three applications, one failed, one with a diff, one
\* clean, went through to the outcome decision.
C2_Witness ==
  /\ pc = "done"
  /\ Len(apps) = 3
  /\ HasError(diffs[1])
  /\ ~HasError(diffs[2]) /\ diffs[2].diff # <<>>
  /\ ~HasError(diffs[3]) /\ diffs[3].diff = <<>>

\* C3: diff commands run one at a time, in list order.  At most one command is
\* in flight; while the command of application i+1 runs, the commands of
\* applications 1..i have completed and the i delays after them have elapsed;
\* a delay is entered only between applications, so a finished loop over n
\* applications has started n commands and slept n-1 times (0 times if n = 0).
C3_OneAtATimeWithDelays ==
  /\ Cardinality(inFlight) <= 1
  /\ pc = "exec" => inFlight = {index + 1} /\ started = index + 1
                    /\ Len(diffs) = index /\ delays = index
  /\ pc # "exec" => inFlight = {}
  /\ pc = "sleep" => delays = index + 1 /\ index + 1 < Len(apps) /\ started = index + 1
  /\ LoopOver => /\ started = Len(apps)
                 /\ delays = (IF Len(apps) >= 1 THEN Len(apps) - 1 ELSE 0)

\* C3 witness: three applications were diffed, with two delays.
C3_Witness == pc = "decide" /\ Len(apps) = 3 /\ started = 3 /\ delays = 2

(***************************************************************************)
(* Properties of the outcome decision.                                     *)
(***************************************************************************)
NumErrors == Cardinality({i \in 1..Len(diffs) : HasError(diffs[i])})

FailOnErrors == FAIL_ON_ERRORS(failInput)

\* What the decision does when there are failure records (both readings of C4).
DecisionOnFailures ==
  /\ (NumErrors > 0 /\ FailOnErrors) =>
       /\ failed
       /\ message = [kind |-> (IF NumErrors = Len(diffs) THEN "all" ELSE "some"),
                     errors |-> NumErrors, total |-> Len(diffs)]
  /\ (NumErrors > 0 /\ ~FailOnErrors) => ~failed /\ warned /\ message = NoMessage

\* C4 as stated: the outcome follows from the failure count alone; with zero
\* failure records the run succeeds.
C4_OutcomeFromFailureCount ==
  pc = "done" => /\ (NumErrors = 0 => ~failed)
                 /\ DecisionOnFailures

\* C4 as amended: with zero failure records the decision does not mark the run
\* failed and emits no warning, so the run succeeds unless getApps marked it
\* failed after a fatal upstream error; with failure records and fail-on-errors
\* set the run is failed with the "all" or the "N errors out of M apps"
\* message; with failure records and fail-on-errors unset it is not failed and
\* a warning is emitted.
C4_OutcomeDecision ==
  pc = "done" => /\ (NumErrors = 0 => /\ failed = (upstream # "ok")
                                      /\ ~warned /\ message = NoMessage)
                 /\ DecisionOnFailures

\* C4 witness: 2 of 3 applications failed and fail-on-errors was set.
C4_Witness ==
  /\ pc = "done" /\ Len(diffs) = 3 /\ NumErrors = 2 /\ FailOnErrors
  /\ failed /\ message = [kind |-> "some", errors |-> 2, total |-> 3]

(***************************************************************************)
(* Properties of the report publisher's comment handling.                  *)
(***************************************************************************)
HasHeader(c) == Includes(c.body, prefixHeader(ENV))

HeaderIds(list) == {list[i].id : i \in {j \in 1..Len(list) : HasHeader(list[j])}}

Deletes == {r \in pending : r.op = "delete"}
Creates == {r \in pending : r.op = "create"}

\* The first line of a report for an environment.
ReportLine(env) == prefixHeader(env) \o <<" ", "c">>

HeaderComments == {i \in 1..Len(comments) : HasHeader(comments[i])}

\* The run is over and every request it issued has completed.
RunSettled == pc = "done" /\ pending = {}

C7_UpstreamErrorIsFatal ==
  upstream # "ok" =>
    /\ apps = <<>>
    /\ started = 0 /\ inFlight = {} /\ diffs = <<>>
    /\ failed

\* C7 witness: a run whose inventory body was no JSON ended, failed.
C7_Witness == pc = "done" /\ upstream = "badjson" /\ failed /\ started = 0

(***************************************************************************)
(* Reports of other environments on the same pull request.                 *)
(***************************************************************************)
\* The comment is a report that a run for environment env published.
IsReportOf(c, env) == c.body = ReportLine(env)

\* The comment is still there after the step.
Stays(c) == \E j \in 1..Len(comments') : comments'[j] = c

\* C17: a run for environment E deletes only stale reports of E: a comment
\* that a run for another environment E' published is never deleted by a run
\* for E, also when E is a prefix of E', and a comment whose body does not
\* contain E's header is left as it is.
C17_OnlyOwnReportsDeleted ==
  [][\A i \in 1..Len(comments) :
       /\ (\E env \in OtherEnvs : IsReportOf(comments[i], env)) => Stays(comments[i])
       /\ ~HasHeader(comments[i]) => Stays(comments[i])]_vars

\* env does not start with the name of the run's environment.
NotPrefixed(env) == ~StartsWith(env, ENV)

\* C17 holds of every other environment whose name does not start with E.
C17_ExceptPrefixedEnvironments ==
  [][\A i \in 1..Len(comments) :
       /\ (\E env \in OtherEnvs : NotPrefixed(env) /\ IsReportOf(comments[i], env))
            => Stays(comments[i])
       /\ ~HasHeader(comments[i]) => Stays(comments[i])]_vars

(***************************************************************************)
(* Properties of the report's content.                                     *)
(***************************************************************************)
\* postDiffComment is over: diffs holds the normalized diff texts.
Published == pc \in {"decide", "done"}

\* The result is one the report keeps: diff text left, or a failure record.
Keepable(d) == d.diff # <<>> \/ HasError(d)

\* The line that opens an application's section of the report.
SectionMark(name) == <<"\n", "App: ">> \o name \o <<"\n">>

HasSection(name) ==
  published # NothingPublished /\ Includes(published.text, SectionMark(name))

\* C14: the report keeps exactly the results that, after normalization, have
\* diff text or a failure record: each of them is in the kept list once and
\* has its section in the published text (a failed application with empty
\* diff text too); a clean result with empty normalized diff text is in
\* neither.
C14_KeptIffDiffOrFailure ==
  Published =>
    /\ \A i \in 1..Len(diffs) :
         /\ Keepable(diffs[i]) <=> (\E j \in 1..Len(kept) : kept[j] = diffs[i])
         /\ Keepable(diffs[i]) <=> HasSection(diffs[i].app.name)
    /\ Len(kept) = Cardinality({i \in 1..Len(diffs) : Keepable(diffs[i])})

\* C14 witness: of three results the report keeps the failed one, which has no
\* diff text, and the one with a diff, and drops the one whose diff text was
\* noise only.
C14_Witness ==
  /\ Published /\ Len(diffs) = 3 /\ Len(kept) = 2
  /\ \E i, j, k \in 1..3 :
       /\ HasError(diffs[i]) /\ diffs[i].diff = <<>> /\ HasSection(diffs[i].app.name)
       /\ diffs[j].diff = DiffFound /\ HasSection(diffs[j].app.name)
       /\ ~Keepable(diffs[k]) /\ ~HasSection(diffs[k].app.name)
            /\ <<"stdout: ">> \o TextOf(DiffNoise) \in log

\* The code unit of a character of an application name.
CodeUnit(c) ==
  IF c = "A" THEN 65 ELSE IF c = "B" THEN 66 ELSE IF c = "a" THEN 97 ELSE 98

\* x comes before y, or is y, in case-sensitive lexicographic order.
RECURSIVE LexLeq(_, _)
LexLeq(x, y) ==
  IF Len(x) = 0 THEN TRUE
  ELSE IF Len(y) = 0 THEN FALSE
  ELSE IF CodeUnit(Head(x)) < CodeUnit(Head(y)) THEN TRUE
  ELSE IF CodeUnit(Head(x)) > CodeUnit(Head(y)) THEN FALSE
  ELSE LexLeq(Tail(x), Tail(y))

\* The name with upper-case letters made lower-case, and its case pattern.
Folded(x) == [i \in 1..Len(x) |-> IF x[i] = "A" THEN "a" ELSE IF x[i] = "B" THEN "b" ELSE x[i]]
CasePattern(x) == [i \in 1..Len(x) |-> IF x[i] \in {"A", "B"} THEN "B" ELSE "A"]

\* x comes before y, or is y, in the collation order of localeCompare: by
\* letters regardless of case; names of the same letters by case, a lower-case
\* letter before its upper-case form.
CollationLeq(x, y) ==
  IF Folded(x) # Folded(y) THEN LexLeq(Folded(x), Folded(y))
  ELSE LexLeq(CasePattern(x), CasePattern(y))

\* Every result with a failure record comes after every result without one.
FailuresLast ==
  \A i, j \in 1..Len(kept) : (i < j /\ HasError(kept[i])) => HasError(kept[j])

\* C15 as stated: in the report the failed results come after all others, and
\* within each of the two groups the results are in case-sensitive
\* lexicographic order of application name.
C15_FailuresLastThenLexicographic ==
  Published =>
    /\ FailuresLast
    /\ \A i, j \in 1..Len(kept) :
         (i < j /\ HasError(kept[i]) = HasError(kept[j])) =>
           LexLeq(kept[i].app.name, kept[j].app.name)

\* C15 as amended: within each group the results are in the collation order
\* of localeCompare, in which "a" comes before "B".
C15_FailuresLastThenCollation ==
  Published =>
    /\ FailuresLast
    /\ \A i, j \in 1..Len(kept) :
         (i < j /\ HasError(kept[i]) = HasError(kept[j])) =>
           CollationLeq(kept[i].app.name, kept[j].app.name)

\* C15 witness: a before B among the results without failure, then the failed
\* application ab, which was diffed first.
C15_Witness ==
  /\ Published /\ Len(kept) = 3
  /\ kept[1].app.name = <<"a">> /\ ~HasError(kept[1])
  /\ kept[2].app.name = <<"B">> /\ ~HasError(kept[2])
  /\ kept[3].app.name = <<"a", "b">> /\ HasError(kept[3])
  /\ diffs[1].app.name = <<"a", "b">>

\* A DiffResult never has both diff text and a failure record, and its
\* failure record is the result of an abnormal exit with empty stdout.
DiffXorFailure(d) ==
  /\ ~(d.diff # <<>> /\ HasError(d))
  /\ HasError(d) => d.error.err # NoErr /\ d.error.stdout = <<>>

\* The DiffResults pushed so far keep their application and failure record.
RecordsStay ==
  pc' # "getApps" =>
    \A i \in 1..Len(diffs) :
      /\ i <= Len(diffs')
      /\ diffs'[i].app = diffs[i].app
      /\ diffs'[i].error = diffs[i].error

\* C16: in every reachable state, before and after the in-place
\* normalization, no DiffResult has both diff text and a failure record; a
\* DiffResult is pushed with a failure record exactly when the tool exited
\* abnormally with empty stdout, and keeps it or its absence to the end of the
\* run.
C16_DiffOrFailureNeverBoth ==
  /\ [](/\ \A i \in 1..Len(diffs) : DiffXorFailure(diffs[i])
        /\ \A j \in 1..Len(kept) : DiffXorFailure(kept[j])
        /\ JustPushed =>
             (HasError(LastDiff) <=> (lastExec.err # NoErr /\ lastExec.stdout = <<>>)))
  /\ [][RecordsStay]_vars

\* C16 witness: after normalization the results are a failure record without
\* diff text, a diff text from an abnormal exit without failure record, and
\* a clean result.
C16_Witness ==
  /\ Published /\ Len(diffs) = 3
  /\ HasError(diffs[1]) /\ diffs[1].diff = <<>>
  /\ ~HasError(diffs[2]) /\ diffs[2].diff # <<>>
  /\ ~HasError(diffs[3]) /\ diffs[3].diff = <<>> /\ lastExec.err = NoErr

(***************************************************************************)
(* Secrets in what a run writes.                                           *)
(***************************************************************************)
\* The text has the deployment-server credential in it.
HasCredential(text) == Includes(text, ARGOCD_TOKEN)

\* The log lines that carry a failed command's error object.
ErrorObjectLines ==
  { line \in log : line[1] \in {"Error details: ", "Error message: "} }

\* C13: scrubbing is the last step before a text reaches a log sink or a
\* published comment: in every run no log line and no published comment text
\* has the credential that the diff tool is given as --auth-token, the log
\* lines and the comment's failure-detail block that carry a failed command's
\* serialized error object included.
C13_NoCredentialWritten ==
  /\ \A line \in log : ~HasCredential(line)
  /\ published # NothingPublished => ~HasCredential(published.text)
  /\ \A i \in 1..Len(comments) : ~HasCredential(comments[i].body)

\* C13 holds of the published comment and of every log line but those that
\* carry a failed command's error object.
C13_ExceptErrorObjectLines ==
  /\ \A line \in log \ ErrorObjectLines : ~HasCredential(line)
  /\ published # NothingPublished => ~HasCredential(published.text)
  /\ \A i \in 1..Len(comments) : ~HasCredential(comments[i].body)

\* A comment with a failure-detail block was published, its credential masked.
C13_ScrubbedCommentReached ==
  /\ published # NothingPublished
  /\ Includes(published.text, <<"command:">>)
  /\ Includes(published.text, AuthFlag \o Mask)

(***************************************************************************)
(* The richer variant against the legacy variant.                          *)
(***************************************************************************)
\* The published text has the section the legacy variant writes for d.
HasLegacySection(d) ==
  published # NothingPublished /\ Includes(published.text, legacyAppSection(d))

\* C19: the richer variant is a superset of the legacy variant.  On the same
\* applications and tool results both build the same list of results, at
\* every point of the run; every result the legacy variant keeps is kept by
\* the richer variant, and the section the legacy variant writes for it is in
\* the text the richer variant publishes; and with fail-on-errors set the
\* richer run ends failed exactly when the legacy run does, which, when the
\* inventory was obtained, is when there is at least one failure record.
C19_RicherIsSupersetOfLegacy ==
  /\ legacy.diffs = diffs
  /\ Published =>
       \A i \in 1..Len(legacy.kept) :
         /\ \E j \in 1..Len(kept) : kept[j] = legacy.kept[i]
         /\ HasLegacySection(legacy.kept[i])
  /\ (pc = "done" /\ FailOnErrors) =>
       /\ failed <=> legacy.failed
       /\ upstream = "ok" => (legacy.failed <=> NumErrors >= 1)

\* C19 witness: of three results one failed, one has a diff and one is clean;
\* fail-on-errors is set.  The legacy variant keeps the one with the diff,
\* the richer variant that one and the failed one, and both runs end failed.
C19_Witness ==
  /\ pc = "done" /\ FailOnErrors /\ upstream = "ok"
  /\ Len(diffs) = 3 /\ NumErrors = 1
  /\ Len(legacy.kept) = 1 /\ Len(kept) = 2
  /\ HasLegacySection(legacy.kept[1])
  /\ failed /\ legacy.failed

\* With fail-on-errors unset the two variants part: the legacy run ends
\* failed on a failure record, the richer run does not.
C19_VariantsPartReached ==
  pc = "done" /\ ~FailOnErrors /\ NumErrors >= 1 /\ legacy.failed /\ ~failed

(***************************************************************************)
(* The selector functions on their own: SelSpec draws an input and applies *)
(* the function to it.  No run is in progress in SelSpec.                  *)
(***************************************************************************)
AppSegs == { <<>>, <<".">>, <<".", ".">>, <<"a">>, <<"a", "b">> }
FileSegs == { <<"a">>, <<"a", "b">> }
MatcherChars == {"/", ",", ".", "a", "b"}
UrlChars == {"o", "r", "/", "q"}
Revisions == {"", Undefined, "main", "master", "dev", "Main", "HEAD"}

\* Source paths: up to MaxAppSegs segments, relative or absolute.
AppPaths ==
  { (IF abs THEN <<sep>> ELSE <<>>) \o Join(q, sep) :
      q \in SeqsOf(AppSegs, 0, MaxAppSegs), abs \in BOOLEAN }

\* Changed file paths: 1..MaxFileSegs segments.
FilePaths == { Join(q, sep) : q \in SeqsOf(FileSegs, 1, MaxFileSegs) }

OtherFile == <<"a", "b", "/", "a">>

\* Change sets: none, one file, one file before or after another one.
FileLists ==
  {<<>>} \cup {<<f>> : f \in FilePaths}
         \cup {<<f, OtherFile>> : f \in FilePaths} \cup {<<OtherFile, f>> : f \in FilePaths}

AppAt(path) == App(<<"a">>, UrlHere, path, "main", "Synced")
AppNamed(name) == App(name, UrlHere, <<"a">>, "main", "Synced")
AppFrom(url, rev) == App(<<"a">>, url, <<"a">>, rev, "Synced")

Names == { <<"a">>, <<"b">>, <<"a", "b">>, <<"b", "a">> }
NameLists ==
  SeqsOf(Names, 0, 2) \cup {<< <<"b", "a">>, <<"a">>, <<"a", "b">> >>}

\* Three applications of this repository, and a change set.
ScenarioPaths ==
  { <<"a", "/", "a">>, <<"a", "/", "a", "b", "/", "a">>, <<"a", "b">>,
    <<".", "/", "a", "b", "/", "a", "/", "a">>, <<"/", "a", "/", "a", "b">> }

\* The inputs of the four selector functions.
PartOfAppInput(path, fl) ==
  [kind |-> "partOfApp", app |-> AppAt(path), files |-> fl, done |-> FALSE, out |-> FALSE]

ByNameInput(nl, m) ==
  [kind |-> "byName", apps |-> [i \in 1..Len(nl) |-> AppNamed(nl[i])], matcher |-> m,
   done |-> FALSE, out |-> <<>>]

RepoInput(url, rev) ==
  [kind |-> "repo", app |-> AppFrom(url, rev), done |-> FALSE, out |-> FALSE]

SelectInput(p1, p2, p3, fl) ==
  [kind |-> "select",
   items |-> << App(<<"a">>, UrlHere, p1, "main", "Synced"),
                App(<<"B">>, UrlHere, p2, "", "OutOfSync"),
                App(<<"b">>, UrlHere, p3, "master", "Synced") >>,
   files |-> fl, done |-> FALSE, out |-> <<>>]

\* No run is in progress: the run's variables are at rest.
NoRun ==
  /\ pc = "idle"
  /\ runNo = 0
  /\ failInput = ""
  /\ upstream = "ok"
  /\ apps = <<>>
  /\ index = 0
  /\ diffs = <<>>
  /\ lastExec = NoExec
  /\ inFlight = {}
  /\ started = 0
  /\ delays = 0
  /\ failed = FALSE
  /\ message = NoMessage
  /\ warned = FALSE
  /\ kept = <<>>
  /\ listed = <<>>
  /\ comments = <<>>
  /\ pending = {}
  /\ nextId = 1
  /\ log = {}
  /\ published = NothingPublished
  /\ racers = NoRacers
  /\ legacy = LegacyStart

SelInit ==
  /\ NoRun
  /\ \/ \E path \in AppPaths, fl \in FileLists : sel = PartOfAppInput(path, fl)
     \/ \E nl \in NameLists, m \in SeqsOf(MatcherChars, 0, MaxMatcherLen) :
          sel = ByNameInput(nl, m)
     \/ \E url \in SeqsOf(UrlChars, 0, MaxUrlLen), rev \in Revisions :
          sel = RepoInput(url, rev)
     \/ \E p1 \in ScenarioPaths, p2 \in ScenarioPaths, p3 \in ScenarioPaths,
           fl \in FileLists : sel = SelectInput(p1, p2, p3, fl)

ApplyPartOfApp ==
  /\ sel.kind = "partOfApp" /\ ~sel.done
  /\ sel' = [sel EXCEPT !.done = TRUE, !.out = partOfApp(sel.files, sel.app)]
  /\ UNCHANGED runVars

ApplyFilterAppsByName ==
  /\ sel.kind = "byName" /\ ~sel.done
  /\ sel' = [sel EXCEPT !.done = TRUE, !.out = filterAppsByName(sel.apps, sel.matcher)]
  /\ UNCHANGED runVars

ApplyRepoFilter ==
  /\ sel.kind = "repo" /\ ~sel.done
  /\ sel' = [sel EXCEPT !.done = TRUE, !.out = isRepoApp(sel.app, RepoSlug)]
  /\ UNCHANGED runVars

ApplySelect ==
  /\ sel.kind = "select" /\ ~sel.done
  /\ sel' = [sel EXCEPT !.done = TRUE,
                        !.out = getApps("ok", "ok", sel.items, sel.files, <<>>).apps]
  /\ UNCHANGED runVars

SelNext == ApplyPartOfApp \/ ApplyFilterAppsByName \/ ApplyRepoFilter \/ ApplySelect

SelSpec == SelInit /\ [][SelNext]_vars

(***************************************************************************)
(* Properties of the selector functions (under SelSpec).                   *)
(***************************************************************************)
\* s starts with p: s is p followed by something.
HasPrefix(s, p) == \E k \in 0..Len(s) : [i \in 1..k |-> s[i]] = p

\* The source path's first two path segments (all of them if fewer than two).
RECURSIVE SegmentsFrom(_, _, _)
SegmentsFrom(p, i, cur) ==
  IF i > Len(p) THEN (IF cur = <<>> THEN <<>> ELSE <<cur>>)
  ELSE IF p[i] = "/"
    THEN (IF cur = <<>> THEN <<>> ELSE <<cur>>) \o SegmentsFrom(p, i + 1, <<>>)
  ELSE SegmentsFrom(p, i + 1, Append(cur, p[i]))

TwoSegmentPrefix(path) ==
  LET segs == SegmentsFrom(normalize(path), 1, <<>>)
  IN IF Len(segs) = 0 THEN <<>>
     ELSE IF Len(segs) = 1 THEN segs[1]
     ELSE segs[1] \o <<"/">> \o segs[2]

Touches(files, app) ==
  \E i \in 1..Len(files) : HasPrefix(normalize(files[i]), TwoSegmentPrefix(app.path))

\* C8: an application is affected exactly when some changed file path, after
\* normalization, starts with the application's source path cut to its first
\* two segments; and of three applications of which the changed files touch
\* only the second one's prefix, exactly the second one is selected.
C8_AffectedIffTwoSegmentPrefix ==
  /\ (sel.kind = "partOfApp" /\ sel.done) => (sel.out <=> Touches(sel.files, sel.app))
  /\ (sel.kind = "select" /\ sel.done
        /\ Touches(sel.files, sel.items[2])
        /\ ~Touches(sel.files, sel.items[1])
        /\ ~Touches(sel.files, sel.items[3])) => sel.out = <<sel.items[2]>>

\* C8 witness: source path a/ab/a is affected by the changed file a/ab/ab,
\* which is not under it, through the prefix a/ab.
C8_Witness ==
  /\ sel.kind = "partOfApp" /\ sel.done /\ sel.out
  /\ sel.app.path = <<"a", "/", "a", "b", "/", "a">>
  /\ sel.files = << <<"a", "/", "a", "b", "/", "a", "b">> >>

\* The scenario of C8 happens: only the second of three applications is touched.
C8_ScenarioWitness ==
  /\ sel.kind = "select" /\ sel.done /\ sel.out = <<sel.items[2]>>
  /\ Touches(sel.files, sel.items[2])
  /\ ~Touches(sel.files, sel.items[1]) /\ ~Touches(sel.files, sel.items[3])

\* The applications of q that satisfy keep, in q's order.
RECURSIVE Keep(_, _)
Keep(keep(_), q) ==
  IF Len(q) = 0 THEN <<>>
  ELSE (IF keep(Head(q)) THEN <<Head(q)>> ELSE <<>>) \o Keep(keep, Tail(q))

\* A matcher of the form /regex/: a regular expression between two slashes.
IsSlashDelimited(m) == Len(m) >= 2 /\ m[1] = "/" /\ m[Len(m)] = "/"

\* The names of a comma-separated list.
CommaNames(m) ==
  LET cuts == {0, Len(m) + 1} \cup {i \in 1..Len(m) : m[i] = ","}
  IN { SubSeq(m, i + 1, j - 1) :
         <<i, j>> \in { c \in cuts \X cuts :
                          c[1] < c[2] /\ \A k \in cuts : ~(c[1] < k /\ k < c[2]) } }

ExpectedByName(q, m) ==
  IF IsSlashDelimited(m)
    THEN Keep(LAMBDA app : RegExpTest(SubSeq(m, 2, Len(m) - 1), app.name), q)
  ELSE IF m # <<>> THEN Keep(LAMBDA app : app.name \in CommaNames(m), q)
  ELSE q

\* C9: filterAppsByName keeps, in the input's order, exactly the applications
\* whose name matches the regular expression when the matcher has the form
\* /regex/, exactly those named in the comma-separated list when the matcher
\* is any other non-empty string, and all of them when the matcher is empty.
C9_SelectsByMatcher ==
  (sel.kind = "byName" /\ sel.done) => sel.out = ExpectedByName(sel.apps, sel.matcher)

\* C9 holds of every matcher but the one-character matcher "/".
C9_ExceptLoneSlash ==
  (sel.kind = "byName" /\ sel.done /\ sel.matcher # <<"/">>) =>
    sel.out = ExpectedByName(sel.apps, sel.matcher)

\* The repository URL contains the owner/repo slug.
ContainsSlug(url) ==
  \E i \in 0..(Len(url) - 3) : url[i + 1] = "o" /\ url[i + 2] = "/" /\ url[i + 3] = "r"

\* C10: an application whose repository URL contains the owner/repo slug
\* passes the filter exactly when its target revision is unset, "main" or
\* "master"; one whose URL does not contain the slug never passes.
C10_RepoAndPrimaryBranch ==
  (sel.kind = "repo" /\ sel.done) =>
    /\ ContainsSlug(sel.app.repoURL) =>
         (sel.out <=> sel.app.targetRevision \in {"", Undefined, "main", "master"})
    /\ ~ContainsSlug(sel.app.repoURL) => ~sel.out

\* C10 witness: an application of this repository with no target revision passes.
C10_Witness ==
  /\ sel.kind = "repo" /\ sel.done /\ sel.out
  /\ sel.app.repoURL = <<"/", "o", "/", "r">> /\ sel.app.targetRevision = ""

(***************************************************************************)
(* The text functions on their own: TextSpec draws a text and applies      *)
(* filterDiff (twice) or scrubSecrets to it.  No run is in progress.        *)
(***************************************************************************)
MaxLines == 4
MaxRestLen == 5

DiffLines ==
  {LHeader, LMarker, LInstOld, LInstNew, LDashes, LPartOf, LOld, LNew, LBlank}

FilterDiffInput(d) ==
  [kind |-> "filterDiff", text |-> d, passes |-> 0, out |-> <<>>, again |-> <<>>]

\* The characters of the texts given to scrubSecrets.
TextChars == {"a", "+", ".", " "}

ScrubInput(t) == [kind |-> "scrubSecrets", text |-> t, done |-> FALSE, out |-> <<>>]

\* A text with --auth-token= in it: at most one character, the flag, the rest.
FlagText(pre, rest) == pre \o AuthFlag \o rest

TextInit ==
  /\ NoRun
  /\ \/ \E d \in SeqsOf(DiffLines, 0, MaxLines) : sel = FilterDiffInput(d)
     \/ \E t \in SeqsOf(TextChars, 0, MaxRestLen) : sel = ScrubInput(t)
     \/ \E pre \in SeqsOf(TextChars, 0, 1), rest \in SeqsOf(TextChars, 0, MaxRestLen) :
          sel = ScrubInput(FlagText(pre, rest))

\* filterDiff(d)
ApplyFilterDiff ==
  /\ sel.kind = "filterDiff" /\ sel.passes = 0
  /\ sel' = [sel EXCEPT !.passes = 1, !.out = filterDiff(sel.text)]
  /\ UNCHANGED runVars

\* filterDiff(filterDiff(d))
ApplyFilterDiffAgain ==
  /\ sel.kind = "filterDiff" /\ sel.passes = 1
  /\ sel' = [sel EXCEPT !.passes = 2, !.again = filterDiff(sel.out)]
  /\ UNCHANGED runVars

ApplyScrubSecrets ==
  /\ sel.kind = "scrubSecrets" /\ ~sel.done
  /\ sel' = [sel EXCEPT !.done = TRUE, !.out = scrubSecrets(sel.text)]
  /\ UNCHANGED runVars

TextNext == ApplyFilterDiff \/ ApplyFilterDiffAgain \/ ApplyScrubSecrets

TextSpec == TextInit /\ [][TextNext]_vars

(***************************************************************************)
(* Properties of the text functions (under TextSpec).                      *)
(***************************************************************************)
\* C11: diff normalization is idempotent: normalizing the normalized text of
\* any raw diff text gives that normalized text again, also for texts of
\* several sections and for texts in which taking out one noise-label block
\* makes the lines around it form a new noise-label block.
C11_FilterDiffIdempotent ==
  (sel.kind = "filterDiff" /\ sel.passes = 2) => sel.again = sel.out

\* A text has a noise line left: an instance-label block or a part-of line.
HasNoise(t) == \E i \in 1..Len(t) : InstanceBlockAt(t, i) \/ t[i] = LPartOf

\* C11 holds of every text whose normalized text has no noise line left.
C11_ExceptLeftoverNoise ==
  (sel.kind = "filterDiff" /\ sel.passes = 2 /\ ~HasNoise(sel.out)) => sel.again = sel.out

\* The text has a --auth-token=<token> pattern.
HasAuthToken(t) == authTokenMatches(t) # <<>>

\* The token captured after the first --auth-token=.
CapturedToken(t) == authTokenMatches(t)[2]

\* C12: for a text with a --auth-token=<token> pattern, the text scrubSecrets
\* returns has no occurrence of the captured token left, after --auth-token=
\* or anywhere else; a text without the pattern is returned as it is.
C12_NoTokenLeft ==
  (sel.kind = "scrubSecrets" /\ sel.done /\ ~sel.out.threw) =>
    /\ HasAuthToken(sel.text) => ~Includes(sel.out.text, CapturedToken(sel.text))
    /\ ~HasAuthToken(sel.text) => sel.out.text = sel.text

\* The token has only characters that stand for themselves in a RegExp, or ".".
PlainToken(tok) == \A i \in 1..Len(tok) : tok[i] # "+"

\* C12 holds of every text whose captured token has no RegExp operator but ".".
C12_ExceptRegExpSyntax ==
  (sel.kind = "scrubSecrets" /\ sel.done) =>
    /\ (HasAuthToken(sel.text) /\ PlainToken(CapturedToken(sel.text))) =>
         ~sel.out.threw /\ ~Includes(sel.out.text, CapturedToken(sel.text))
    /\ ~HasAuthToken(sel.text) => ~sel.out.threw /\ sel.out.text = sel.text

\* scrubSecrets returns for every text: it does not throw.
C12_ScrubSecretsReturns ==
  (sel.kind = "scrubSecrets" /\ sel.done) => ~sel.out.threw

(***************************************************************************)
(* Two runs for the same environment publish on the same pull request at   *)
(* the same time (two workflow runs of one pull request are not            *)
(* serialized by the action).  Each has a non-empty kept list.             *)
(***************************************************************************)
Racers == {1, 2}

\* What each of the two runs has to publish: one application with a diff.
RaceKept ==
  filteredDiffs(<< diffOf(AppA, execCommand(argocd(command(AppA)),
                                            Exec(DiffFound, "", Failure))) >>)
RaceText == output(RaceKept, ENV).text

\* The pull request and the two publishers, as one value.
RaceState ==
  [comments |-> comments, pending |-> pending, nextId |-> nextId, racers |-> racers]

\* Variant: the publisher creates its comment and deletes nothing.
racePostDiffComment_CreateOnly(s, r) ==
  [s EXCEPT !.pending = @ \cup newComment(RaceKept, RaceText, r),
            !.racers[r] = "done"]

\* postDiffComment of run r from listComments on: the list is the pull
\* request's comments at that moment, the requests go out unawaited.  Two
\* delete requests for one comment are one element of pending: the second
\* to complete finds the comment gone and changes nothing.
racePostDiffComment(s, r) ==
  [s EXCEPT !.pending = @ \cup staleDeletes(s.comments, ENV)
                          \cup newComment(RaceKept, RaceText, r),
            !.racers[r] = "done"]

\* The platform completes one request.
completed(s, req) ==
  IF req.op = "delete"
    THEN [s EXCEPT !.comments = SelectSeq(@, LAMBDA c : c.id # req.id),
                   !.pending = @ \ {req}]
  ELSE [s EXCEPT !.comments = Append(@, [id |-> s.nextId, body |-> req.body, run |-> req.run]),
                 !.pending = @ \ {req},
                 !.nextId = @ + 1]

RaceBecomes(s) ==
  /\ comments' = s.comments
  /\ pending' = s.pending
  /\ nextId' = s.nextId
  /\ racers' = s.racers
  /\ UNCHANGED << pc, runNo, failInput, upstream, apps, index, diffs, lastExec, inFlight,
                  started, delays, failed, message, warned, kept, listed, log, published,
                  sel, legacy >>

RaceInit ==
  /\ pc = "idle"
  /\ runNo = 0
  /\ failInput = ""
  /\ upstream = "ok"
  /\ apps = <<>>
  /\ index = 0
  /\ diffs = <<>>
  /\ lastExec = NoExec
  /\ inFlight = {}
  /\ started = 0
  /\ delays = 0
  /\ failed = FALSE
  /\ message = NoMessage
  /\ warned = FALSE
  /\ kept = <<>>
  /\ listed = <<>>
  /\ log = {}
  /\ published = NothingPublished
  /\ legacy = LegacyStart
  /\ sel = NoSel
  /\ comments \in InitialComments
  /\ pending = {}
  /\ nextId = Len(comments) + 1
  /\ racers = [r \in Racers |-> "ready"]

RacePostDiffComment ==
  \E r \in Racers :
    /\ racers[r] = "ready"
    /\ RaceBecomes(racePostDiffComment(RaceState, r))

RaceComplete ==
  \E req \in pending : RaceBecomes(completed(RaceState, req))

RaceNext ==
  \/ RacePostDiffComment
  \/ RaceComplete

RaceSpec == RaceInit /\ [][RaceNext]_vars

(***************************************************************************)
(* Properties of the race.                                                 *)
(***************************************************************************)
\* The states one step of the race leads to from s.
RaceSuccessors(s) ==
  {racePostDiffComment(s, r) : r \in {x \in Racers : s.racers[x] = "ready"}}
    \cup {completed(s, req) : req \in s.pending}

\* The final states the race can come to from s.
RECURSIVE RaceFinals(_)
RaceFinals(s) ==
  IF RaceSuccessors(s) = {} THEN {s}
  ELSE UNION {RaceFinals(t) : t \in RaceSuccessors(s)}

\* How many comments of a list have the header.
NumReports(list) == Cardinality({i \in 1..Len(list) : HasHeader(list[i])})

RaceStarts == pending = {} /\ \A r \in Racers : racers[r] = "ready"
RaceOver == pending = {} /\ \A r \in Racers : racers[r] = "done"

C18_SingleReportReached ==
  RaceOver /\ NumReports(comments) = 1

====
